---- MODULE Spec2Model ----
(***************************************************************************)
(* Model of simecek/detsky_den2026: the provider abstraction               *)
(* (src/providers.py) and the Gradio handlers with the print-layout        *)
(* compositor (src/main.py).                                               *)
(*                                                                         *)
(* Python values are represented as follows.  A PIL image is a record      *)
(* [width, height, mode]; Python's None is the record None below.  A str   *)
(* is a sequence of one-character (or one-phrase) strings, so that         *)
(* strip(), truthiness, "contains" and "ends with" are computed and not    *)
(* assumed.  An exception is recorded by the name of its class.            *)
(***************************************************************************)
EXTENDS Integers, Sequences, FiniteSets, TLC

VARIABLES
    environ,        \* os.environ, the process environment
    provider,       \* the provider instance the caller holds
    request,        \* the GenerationRequest the caller submits
    response,       \* how the remote backend answers a request
    last,           \* the last call into the provider side and its outcome
    original,       \* main.py: sketch_input handed to print_images
    generated,      \* main.py: output_image handed to print_images
    layout,         \* outcome of the last direct create_print_layout call
    print_status    \* outcome of the last print_images call

layout_vars == <<original, generated, layout, print_status>>

provider_vars == <<environ, provider, request, response, last>>

vars == <<environ, provider, request, response, last,
          original, generated, layout, print_status>>

----------------------------------------------------------------------------
(* Bounds of the model *)

\* free text (instructions) has at most MaxLen characters
MaxLen == 2

\* a Gemini response has at most MaxParts parts
MaxParts == 2

\* image sides 1..MaxSide are enumerated next to the ExtremeSides
MaxSide == 3

\* sides that make the cases of the geometry claims happen: the slot is
\* 1120x747, so 1121x1 and 1x1121 truncate a side to zero; 77 and 275 are
\* sides whose float product falls just below the exact integer (1x77 gives
\* height 746, 275x1 gives width 1119); 512 is the backend's usual square;
\* 10000 is extreme.
ExtremeSides == {77, 275, 512, 1121, 10000}

Sides == (1..MaxSide) \cup ExtremeSides

----------------------------------------------------------------------------
(* Images *)

None == [width |-> 0, height |-> 0, mode |-> "None"]

LayoutImages == [width : Sides, height : Sides, mode : {"RGB"}]

----------------------------------------------------------------------------
(* Python str values *)

\* a str | None value: NoneStr is None, Str(s) the str with characters s
NoneStr == [is_none |-> TRUE, chars |-> <<>>]

Str(s) == [is_none |-> FALSE, chars |-> s]

\* the characters free text is drawn from: one whitespace, one other
Alphabet == {" ", "x"}

Texts == UNION {[1..n -> Alphabet] : n \in 0..MaxLen}

IsSpace(c) == c \in {" ", "\t", "\n"}

RECURSIVE lstrip(_)
lstrip(s) ==
    IF s = <<>> THEN s
    ELSE IF IsSpace(Head(s)) THEN lstrip(Tail(s)) ELSE s

RECURSIVE rstrip(_)
rstrip(s) ==
    IF s = <<>> THEN s
    ELSE IF IsSpace(s[Len(s)]) THEN rstrip(SubSeq(s, 1, Len(s) - 1)) ELSE s

\* str.strip()
strip(s) == rstrip(lstrip(s))

\* bool(prompt) of a str | None
Truthy(p) == ~p.is_none /\ p.chars # <<>>

\* truthiness taken after trimming: what a provider that trims would test
TruthyStripped(p) == ~p.is_none /\ strip(p.chars) # <<>>

Contains(s, sub) ==
    \E i \in 0..(Len(s) - Len(sub)) : SubSeq(s, i + 1, i + Len(sub)) = sub

EndsWith(s, suf) ==
    /\ Len(suf) <= Len(s)
    /\ SubSeq(s, Len(s) - Len(suf) + 1, Len(s)) = suf

RECURSIVE Join(_, _)
Join(seq, sep) ==
    IF seq = <<>> THEN <<>>
    ELSE IF Len(seq) = 1 THEN <<seq[1]>>
    ELSE <<seq[1], sep>> \o Join(Tail(seq), sep)

----------------------------------------------------------------------------
(* ImageProvider._build_prompt (providers.py:38-47) *)

InstructionsMarker == " Additional instructions: "

build_prompt(style, prompt) ==
    LET base == <<"Transform this child's sketch/drawing into a beautiful, detailed image in ">>
                \o style
                \o <<" style. Keep the main elements and composition from the sketch but make it look professionally rendered and polished.">>
    IN  IF Truthy(prompt)
        THEN base \o <<InstructionsMarker>> \o prompt.chars
        ELSE base

----------------------------------------------------------------------------
(* The registry and the provider classes (providers.py:50-67, 98-131,     *)
(* 159-194)                                                                *)

Unset == "<unset>"

EnvVars == {"OPENAI_API_KEY", "GOOGLE_GENAI_USE_VERTEXAI",
            "GOOGLE_CLOUD_PROJECT", "GOOGLE_CLOUD_LOCATION"}

\* PROVIDERS, in the order of the dict
PROVIDERS == <<"openai", "gemini">>

RegisteredKeys == {PROVIDERS[i] : i \in 1..Len(PROVIDERS)}

\* the class attributes name and description
ClassName(key) ==
    IF key = "openai" THEN "OpenAI GPT-Image-1.5"
    ELSE "Gemini 3 Pro Image (Vertex AI)"

ClassDescription(key) ==
    IF key = "openai"
    THEN "OpenAI's latest image generation model with excellent sketch interpretation"
    ELSE "Google's Gemini model with Nano Banana image generation via Vertex AI"

list_providers == [i \in 1..Len(PROVIDERS) |->
                      <<PROVIDERS[i], ClassName(PROVIDERS[i]),
                        ClassDescription(PROVIDERS[i])>>]

NoProvider ==
    [key |-> "none", name |-> "", description |-> "", model |-> "",
     api_key |-> Unset, vertexai |-> Unset, project |-> Unset,
     location |-> Unset]

\* the keyword arguments a caller passes: "" stands for an argument left
\* out (api_key=None, project=None) or passed empty (location="")
NoArg == ""

\* a call with no keyword arguments: location keeps its default "global"
NoKwargsDefault == [api_key |-> NoArg, project |-> NoArg, location |-> "global"]

OpenAIKwargs == [api_key : {NoArg, "sk-arg"}, project : {NoArg},
                 location : {NoArg}]

GeminiKwargs == [api_key : {NoArg}, project : {NoArg, "p1"},
                 location : {"global", NoArg}]

\* OpenAIProvider.__init__: the key is the argument or OPENAI_API_KEY; with
\* neither the OpenAI client raises OpenAIError.  The environment is read,
\* not written.
OpenAIProvider_init(kwargs, env) ==
    LET k == IF kwargs.api_key # NoArg THEN kwargs.api_key
             ELSE env["OPENAI_API_KEY"]
    IN  IF k = Unset
        THEN [error |-> "OpenAIError", instance |-> NoProvider, env |-> env]
        ELSE [error |-> "none",
              instance |-> [key |-> "openai", name |-> ClassName("openai"),
                            description |-> ClassDescription("openai"),
                            model |-> "gpt-image-1.5", api_key |-> k,
                            vertexai |-> Unset, project |-> Unset,
                            location |-> Unset],
              env |-> env]

\* the writes of GeminiVertexProvider.__init__ to os.environ
\* (providers.py:122-126)
GeminiEnviron(kwargs, env) ==
    [v \in EnvVars |->
        IF v = "GOOGLE_GENAI_USE_VERTEXAI"
        THEN (IF env[v] = Unset THEN "True" ELSE env[v])
        ELSE IF v = "GOOGLE_CLOUD_PROJECT" /\ kwargs.project # NoArg
        THEN kwargs.project
        ELSE IF v = "GOOGLE_CLOUD_LOCATION" /\ kwargs.location # NoArg
        THEN kwargs.location
        ELSE env[v]]

\* GeminiVertexProvider.__init__: genai.Client() takes its configuration
\* from the environment just written; client_ok is whether the client
\* could be built (credentials found)
GeminiVertexProvider_init(kwargs, env, client_ok) ==
    LET e == GeminiEnviron(kwargs, env)
    IN  IF ~client_ok
        THEN [error |-> "ClientError", instance |-> NoProvider, env |-> e]
        ELSE [error |-> "none",
              instance |-> [key |-> "gemini", name |-> ClassName("gemini"),
                            description |-> ClassDescription("gemini"),
                            model |-> "gemini-3-pro-image-preview",
                            api_key |-> Unset,
                            vertexai |-> e["GOOGLE_GENAI_USE_VERTEXAI"],
                            project |-> e["GOOGLE_CLOUD_PROJECT"],
                            location |-> e["GOOGLE_CLOUD_LOCATION"]],
              env |-> e]

UnknownProviderMessage(name) ==
    <<"Unknown provider: ", name, ". Available: ">> \o Join(PROVIDERS, ", ")

\* PROVIDERS[name](**kwargs)
Construct(name, kwargs, env, client_ok) ==
    IF name = "openai" THEN OpenAIProvider_init(kwargs, env)
    ELSE GeminiVertexProvider_init(kwargs, env, client_ok)

\* a registry that falls back to its first backend for an unknown key
get_provider_fallback(name, kwargs, env, client_ok) ==
    LET r == Construct(IF name \in RegisteredKeys THEN name ELSE PROVIDERS[1],
                       kwargs, env, client_ok)
    IN  [error |-> r.error, message |-> <<>>, instance |-> r.instance,
         env |-> r.env]

get_provider(name, kwargs, env, client_ok) ==
    IF name \notin RegisteredKeys
    THEN [error |-> "ValueError", message |-> UnknownProviderMessage(name),
          instance |-> NoProvider, env |-> env]
    ELSE LET r == Construct(name, kwargs, env, client_ok)
         IN  [error |-> r.error, message |-> <<>>, instance |-> r.instance,
              env |-> r.env]

----------------------------------------------------------------------------
(* generate_from_sketch (providers.py:69-95, 133-156) *)

\* PIL modes of a sketch; those of AlphaModes carry transparency
Modes == {"RGB", "RGBA", "LA", "PA"}

AlphaModes == {"RGBA", "LA", "PA"}

\* the modes PIL's PNG writer accepts; any other raises OSError
PngModes == {"RGB", "RGBA", "LA"}

Sketches == [width : {512}, height : {512}, mode : Modes]

\* the parts of a Gemini response: a text part has inline_data None
TextPart == [inline_data |-> "None"]

ImageParts == {[inline_data |-> "png-a"], [inline_data |-> "png-b"]}

Parts == {TextPart} \cup ImageParts

Responses == UNION {[1..n -> Parts] : n \in 0..MaxParts}

\* Image.open(BytesIO(data))
DecodeImage(data) ==
    IF data = "png-a" THEN [width |-> 1024, height |-> 1024, mode |-> "RGB"]
    ELSE [width |-> 512, height |-> 512, mode |-> "RGBA"]

\* index of the part the loop at providers.py:151-154 returns from, 0 when
\* it runs to its end
LastImagePart(parts) ==
    IF \E i \in 1..Len(parts) : parts[i].inline_data # "None"
    THEN CHOOSE i \in 1..Len(parts) :
            /\ parts[i].inline_data # "None"
            /\ \A j \in (i + 1)..Len(parts) : parts[j].inline_data = "None"
    ELSE 0

FirstImagePart(parts) ==
    IF \E i \in 1..Len(parts) : parts[i].inline_data # "None"
    THEN CHOOSE i \in 1..Len(parts) :
            /\ parts[i].inline_data # "None"
            /\ \A j \in 1..(i - 1) : parts[j].inline_data = "None"
    ELSE 0

\* the outcome of one generate_from_sketch call: the exception raised (or
\* "none"), the image returned (or None), the requests sent to the backend,
\* the prompt and the mode of the image sent, and the caller's sketch
\* object after the call
GenOutcome(error, result, requests, full_prompt, sent_mode, sketch) ==
    [error |-> error, result |-> result, requests |-> requests,
     full_prompt |-> full_prompt, sent_mode |-> sent_mode,
     caller_sketch |-> sketch]

\* a provider that sends the request again when the first one fails
OpenAIProvider_generate_retry(sketch, style, prompt, backend) ==
    LET mode == IF sketch.mode = "RGBA" THEN "RGB" ELSE sketch.mode
        full == build_prompt(style, prompt)
    IN  IF mode \notin PngModes
        THEN GenOutcome("OSError", None, 0, <<>>, "none", sketch)
        ELSE IF backend = "fail"
        THEN GenOutcome("BackendError", None, 2, full, mode, sketch)
        ELSE GenOutcome("none", DecodeImage("png-a"), 1, full, mode, sketch)

\* OpenAIProvider.generate_from_sketch: convert() returns a new image and
\* rebinds the local name only
OpenAIProvider_generate_from_sketch(sketch, style, prompt, backend) ==
    LET mode == IF sketch.mode = "RGBA" THEN "RGB" ELSE sketch.mode
        full == build_prompt(style, prompt)
    IN  IF mode \notin PngModes
        THEN GenOutcome("OSError", None, 0, <<>>, "none", sketch)
        ELSE IF backend = "fail"
        THEN GenOutcome("BackendError", None, 1, full, mode, sketch)
        ELSE GenOutcome("none", DecodeImage("png-a"), 1, full, mode, sketch)

\* GeminiVertexProvider.generate_from_sketch: the sketch goes out as it is
\* backend is what the one client call does: "fail" is an exception out of
\* it (transport, auth, quota, malformed response), "ok" a response
GeminiVertexProvider_generate_from_sketch(sketch, style, prompt, backend, parts) ==
    LET full == build_prompt(style, prompt)
        i    == FirstImagePart(parts)
    IN  IF backend = "fail"
        THEN GenOutcome("BackendError", None, 1, full, sketch.mode, sketch)
        ELSE IF i = 0
        THEN GenOutcome("RuntimeError", None, 1, full, sketch.mode, sketch)
        ELSE GenOutcome("none", DecodeImage(parts[i].inline_data), 1, full,
                        sketch.mode, sketch)

generate_from_sketch(p, sketch, style, prompt, backend, parts) ==
    IF p.key = "openai"
    THEN OpenAIProvider_generate_from_sketch(sketch, style, prompt, backend)
    ELSE GeminiVertexProvider_generate_from_sketch(sketch, style, prompt,
                                                   backend, parts)

----------------------------------------------------------------------------
(* transform_sketch (main.py:37-78) *)

\* canonical style keys of STYLES (main.py:17-34), as the dropdown hands
\* them over; the empty str is a dropdown with nothing selected
Styles == {<<"watercolor painting">>, <<"cartoon", "/", "animated">>}

NoGen == GenOutcome("none", None, 0, <<>>, "none", None)

\* the handler's outcome: env is os.environ after it, gen the provider
\* call it made (NoGen when it made none).  custom_prompt.strip() on None
\* raises AttributeError inside the second try.
transform_sketch(sketch, style, custom_prompt, env, client_ok, backend, parts) ==
    IF sketch = None
    THEN [error |-> "gr.Error", message |-> <<"Nejprve nahraj kresbu!">>,
          result |-> None, env |-> env, instance |-> NoProvider, gen |-> NoGen]
    ELSE IF style = <<>>
    THEN [error |-> "gr.Error", message |-> <<"Vyber styl!">>,
          result |-> None, env |-> env, instance |-> NoProvider, gen |-> NoGen]
    ELSE LET g == get_provider("gemini", NoKwargsDefault, env, client_ok)
         IN  IF g.error # "none"
             THEN [error |-> "gr.Error",
                   message |-> <<"Nepodarilo se spustit poskytovatele: ", g.error>>,
                   result |-> None, env |-> g.env, instance |-> NoProvider,
                   gen |-> NoGen]
             ELSE IF custom_prompt.is_none
             THEN [error |-> "gr.Error",
                   message |-> <<"Generovani obrazku selhalo: ", "AttributeError">>,
                   result |-> None, env |-> g.env, instance |-> g.instance,
                   gen |-> NoGen]
             ELSE LET r == generate_from_sketch(
                               g.instance, sketch, style,
                               IF strip(custom_prompt.chars) # <<>>
                               THEN custom_prompt ELSE NoneStr,
                               backend, parts)
                  IN  IF r.error # "none"
                      THEN [error |-> "gr.Error",
                            message |-> <<"Generovani obrazku selhalo: ", r.error>>,
                            result |-> None, env |-> g.env,
                            instance |-> g.instance, gen |-> r]
                      ELSE [error |-> "none", message |-> <<>>,
                            result |-> r.result, env |-> g.env,
                            instance |-> g.instance, gen |-> r]

----------------------------------------------------------------------------
(* The provider side as a state machine: the process environment, the      *)
(* provider instance the caller holds, the request the caller submits, the *)
(* way the remote backend answers it, and the record of the last call.     *)

NoKwargs == [api_key |-> NoArg, project |-> NoArg, location |-> NoArg]

NoCall ==
    [op |-> "none", key |-> "", kwargs |-> NoKwargs,
     error |-> "none", message |-> <<>>, instance |-> NoProvider,
     result |-> None, gen |-> NoGen]

\* a GenerationRequest: the sketch, the style key and the instructions
NoRequest == [sketch |-> None, style |-> <<>>, prompt |-> NoneStr]

Requests == [sketch : Sketches \cup {None},
             style  : Styles \cup {<<>>},
             prompt : {NoneStr} \cup {Str(t) : t \in Texts}]

\* the backend's answer to the request: an exception out of the client
\* call, or a response (its parts matter to Gemini only)
NoResponse == [outcome |-> "fail", parts |-> <<>>]

BackendResponses ==
    {NoResponse} \cup [outcome : {"ok"}, parts : Responses]

ProviderKeys == RegisteredKeys \cup {"dalle", ""}

EnvironWithKey(k) ==
    [v \in EnvVars |-> IF v = "OPENAI_API_KEY" THEN k ELSE Unset]

\* a caller resolves a registry key: get_provider(name, **kwargs)
GetProvider ==
    \E name \in ProviderKeys, client_ok \in BOOLEAN :
      \E kwargs \in (IF name = "gemini" THEN GeminiKwargs ELSE OpenAIKwargs) :
        LET r == get_provider(name, kwargs, environ, client_ok)
        IN  /\ environ' = r.env
            /\ provider' = IF r.error = "none" THEN r.instance ELSE provider
            /\ last' = [NoCall EXCEPT !.op = "get_provider", !.key = name,
                                      !.kwargs = kwargs,
                                      !.error = r.error, !.message = r.message,
                                      !.instance = r.instance]
            /\ UNCHANGED <<request, response>>
            /\ UNCHANGED layout_vars

\* a caller uses the instance it holds:
\* provider.generate_from_sketch(sketch, style, prompt)
Generate ==
    /\ provider # NoProvider
    /\ request.sketch # None
    /\ request.style # <<>>
    /\ LET r == generate_from_sketch(provider, request.sketch, request.style,
                                     request.prompt, response.outcome,
                                     response.parts)
       IN  last' = [NoCall EXCEPT !.op = "generate", !.key = provider.key,
                                  !.error = r.error, !.instance = provider,
                                  !.result = r.result, !.gen = r]
    /\ UNCHANGED <<environ, provider, request, response>>
    /\ UNCHANGED layout_vars

\* the buttons "Promenit!" and "Pregenerovat":
\* transform_sketch(sketch_input, style_dropdown, custom_prompt)
TransformSketch ==
    \E client_ok \in BOOLEAN :
        LET r == transform_sketch(request.sketch, request.style,
                                  request.prompt, environ, client_ok,
                                  response.outcome, response.parts)
        IN  /\ environ' = r.env
            /\ last' = [NoCall EXCEPT !.op = "transform", !.key = "gemini",
                                      !.error = r.error, !.message = r.message,
                                      !.instance = r.instance,
                                      !.result = r.result, !.gen = r.gen]
            /\ UNCHANGED <<provider, request, response>>
            /\ UNCHANGED layout_vars

----------------------------------------------------------------------------
(* Python float arithmetic of resize_to_fit (main.py:117-118), computed    *)
(* exactly as IEEE-754 binary64 computes it, in integers.                  *)
(*                                                                         *)
(* ratio = fl(a / x) has a 53-bit significand M = round(a * 2^(52-q) / x)  *)
(* with 2^q <= a/x < 2^(q+1).  Its signed error in units of                *)
(* 1 / (x * 2^(52-q)) is t = M*x - a*2^(52-q), found from                  *)
(* a * 2^(52-q) mod 2x.  int(d * ratio) is floor(d*a/x) when x does not    *)
(* divide d*a (the error, below 2^-40, cannot reach the next integer).     *)
(* When d*a/x is an integer k, the product k + d*t/(x*2^(52-q)) rounds to  *)
(* k or to the double just below k, and int() of the latter is k - 1.      *)

RECURSIVE Pow2(_)
Pow2(n) == IF n = 0 THEN 1 ELSE 2 * Pow2(n - 1)

RECURSIVE Pow2Mod(_, _)
Pow2Mod(e, m) == IF e = 0 THEN 1 % m ELSE (2 * Pow2Mod(e - 1, m)) % m

RECURSIVE Log2Floor(_)
Log2Floor(k) == IF k < 2 THEN 0 ELSE 1 + Log2Floor(k \div 2)

\* the q with 2^q <= a/x < 2^(q+1)
RECURSIVE Log2Up(_, _, _)
Log2Up(a, x, q) == IF 2 * Pow2(q) * x <= a THEN Log2Up(a, x, q + 1) ELSE q

RECURSIVE Log2Down(_, _, _)
Log2Down(a, x, n) == IF Pow2(n) * a < x THEN Log2Down(a, x, n + 1) ELSE n

Log2FloorRatio(a, x) == IF a >= x THEN Log2Up(a, x, 0) ELSE 0 - Log2Down(a, x, 0)

\* signed rounding error t of fl(a / x), round-half-to-even
FloatDivError(a, x) ==
    LET q    == Log2FloorRatio(a, x)
        r2   == (a * Pow2Mod(52 - q, 2 * x)) % (2 * x)
        rem  == r2 % x
        odd  == r2 \div x
    IN  IF 2 * rem < x THEN 0 - rem
        ELSE IF 2 * rem > x THEN x - rem
        ELSE IF odd = 0 THEN 0 - rem ELSE x - rem

\* int(d * fl(a / x))
FloatMulTrunc(d, a, x) ==
    IF (d * a) % x # 0 THEN (d * a) \div x
    ELSE LET k   == (d * a) \div x
             t   == FloatDivError(a, x)
             p   == Log2Floor(k)
             lim == x * Pow2(p - Log2FloorRatio(a, x))
         IN  IF t >= 0 THEN k
             ELSE IF k = Pow2(p)
                  THEN (IF 4 * d * (0 - t) <= lim THEN k ELSE k - 1)
                  ELSE (IF 2 * d * (0 - t) <= lim THEN k ELSE k - 1)

----------------------------------------------------------------------------
(* create_print_layout (main.py:81-144) *)

A4_WIDTH == 1240
A4_HEIGHT == 1754
MARGIN == 60
LABEL_HEIGHT == 50
SPACING == 40

available_width == A4_WIDTH - 2 * MARGIN

available_height == (A4_HEIGHT - 2 * MARGIN - 2 * LABEL_HEIGHT - SPACING) \div 2

NoSize == [width |-> 0 - 1, height |-> 0 - 1]

\* max() taken for min(): the image fills the slot instead of fitting it
RatioIsMax(img, max_w, max_h) == max_w * img.height >= max_h * img.width

\* which quotient min(max_w / img.width, max_h / img.height) selects:
\* TRUE when it is max_w / img.width (rounding is monotonic, so the smaller
\* float is the float of the smaller quotient)
RatioIsWidth(img, max_w, max_h) == max_w * img.height <= max_h * img.width

\* new_size of resize_to_fit
new_size(img, max_w, max_h) ==
    LET byw == RatioIsWidth(img, max_w, max_h)
        a   == IF byw THEN max_w ELSE max_h
        x   == IF byw THEN img.width ELSE img.height
    IN  [width  |-> FloatMulTrunc(img.width, a, x),
         height |-> FloatMulTrunc(img.height, a, x)]

\* resize_to_fit: img.width on None raises AttributeError; Image.resize
\* raises ValueError ("height and width must be > 0") on an empty size
resize_to_fit(img, max_w, max_h) ==
    IF img = None
    THEN [error |-> "AttributeError", size |-> NoSize]
    ELSE LET s == new_size(img, max_w, max_h)
         IN  IF s.width < 1 \/ s.height < 1
             THEN [error |-> "ValueError", size |-> s]
             ELSE [error |-> "none", size |-> s]

NoCanvas ==
    [width |-> 0, height |-> 0,
     orig_x |-> 0, orig_y |-> 0, orig_w |-> 0, orig_h |-> 0,
     gen_x |-> 0, gen_y |-> 0, gen_w |-> 0, gen_h |-> 0,
     label_orig_y |-> 0, label_gen_y |-> 0]

\* the bottom image placed right under the top slot, its spacing and label
\* forgotten
gen_y_no_label == MARGIN + LABEL_HEIGHT + available_height

gen_y == MARGIN + LABEL_HEIGHT + available_height + SPACING + LABEL_HEIGHT

\* the page with both images pasted, as returned at main.py:144
Canvas(os, gs) ==
    [width |-> A4_WIDTH, height |-> A4_HEIGHT,
     orig_x |-> MARGIN + (available_width - os.width) \div 2,
     orig_y |-> MARGIN + LABEL_HEIGHT,
     orig_w |-> os.width, orig_h |-> os.height,
     gen_x |-> MARGIN + (available_width - gs.width) \div 2,
     gen_y |-> gen_y,
     gen_w |-> gs.width, gen_h |-> gs.height,
     label_orig_y |-> MARGIN,
     label_gen_y |-> MARGIN + LABEL_HEIGHT + available_height + SPACING]

\* a page returned although an input could not be resized: what the code
\* would do if it skipped an unusable image instead of raising
create_print_layout_partial(orig, gen) ==
    LET o == resize_to_fit(orig, available_width, available_height)
        g == resize_to_fit(gen, available_width, available_height)
        z == [width |-> 0, height |-> 0]
    IN  [error |-> "none",
         canvas |-> Canvas(IF o.error = "none" THEN o.size ELSE z,
                           IF g.error = "none" THEN g.size ELSE z),
         orig_size |-> o.size, gen_size |-> g.size]

create_print_layout(orig, gen) ==
    LET o == resize_to_fit(orig, available_width, available_height)
        g == resize_to_fit(gen, available_width, available_height)
    IN  IF o.error # "none"
        THEN [error |-> o.error, canvas |-> NoCanvas,
              orig_size |-> o.size, gen_size |-> NoSize]
        ELSE IF g.error # "none"
        THEN [error |-> g.error, canvas |-> NoCanvas,
              orig_size |-> o.size, gen_size |-> g.size]
        ELSE [error |-> "none", canvas |-> Canvas(o.size, g.size),
              orig_size |-> o.size, gen_size |-> g.size]

NoLayout ==
    [error |-> "not called", canvas |-> NoCanvas,
     orig_size |-> NoSize, gen_size |-> NoSize]

----------------------------------------------------------------------------
(* print_images (main.py:147-182) *)

\* what subprocess.run(["lpr", ...]) does: returns 0, returns non-zero, or
\* raises FileNotFoundError
LprOutcomes == {"ok", "nonzero", "FileNotFoundError"}

NoPrint == [error |-> "not called", message |-> "", spooled |-> NoCanvas]

print_images(orig, gen, lpr) ==
    IF orig = None
    THEN [error |-> "gr.Error", message |-> "Chybi originalni kresba!",
          spooled |-> NoCanvas]
    ELSE IF gen = None
    THEN [error |-> "gr.Error", message |-> "Nejprve vygeneruj obrazek!",
          spooled |-> NoCanvas]
    ELSE LET l == create_print_layout(orig, gen)
         IN  IF l.error # "none"
             THEN [error |-> "gr.Error", message |-> "Chyba pri tisku",
                   spooled |-> NoCanvas]
             ELSE IF lpr = "FileNotFoundError"
             THEN [error |-> "gr.Error", message |-> "Prikaz 'lpr' nenalezen",
                   spooled |-> NoCanvas]
             ELSE IF lpr = "nonzero"
             THEN [error |-> "gr.Error", message |-> "Chyba pri tisku",
                   spooled |-> NoCanvas]
             ELSE [error |-> "none", message |-> "Obrazek odeslan na tiskarnu!",
                   spooled |-> l.canvas]

----------------------------------------------------------------------------
(* The compositor's specification: the inputs are drawn at Init, the       *)
(* actions apply create_print_layout and the print handler to them.        *)

InitLayout ==
    /\ environ = EnvironWithKey(Unset)
    /\ provider = NoProvider
    /\ request = NoRequest
    /\ response = NoResponse
    /\ last = NoCall
    /\ original \in LayoutImages \cup {None}
    /\ generated \in LayoutImages \cup {None}
    /\ layout = NoLayout
    /\ print_status = NoPrint

ComposeLayout ==
    /\ layout' = create_print_layout(original, generated)
    /\ UNCHANGED <<original, generated, print_status>>
    /\ UNCHANGED provider_vars

PrintImages ==
    \E lpr \in LprOutcomes :
        /\ print_status' = print_images(original, generated, lpr)
        /\ UNCHANGED <<original, generated, layout>>
        /\ UNCHANGED provider_vars

NextLayout == ComposeLayout \/ PrintImages

SpecLayout == InitLayout /\ [][NextLayout]_vars

----------------------------------------------------------------------------
(* The registry's specification: callers resolve keys, in any order, in a  *)
(* process whose environment holds an OpenAI key or not.                   *)

LayoutIdle ==
    /\ original = None
    /\ generated = None
    /\ layout = NoLayout
    /\ print_status = NoPrint

Init ==
    /\ environ \in {EnvironWithKey(k) : k \in {Unset, "sk-env"}}
    /\ provider = NoProvider
    /\ request = NoRequest
    /\ response = NoResponse
    /\ last = NoCall
    /\ LayoutIdle

Next == GetProvider

Spec == Init /\ [][Next]_vars

----------------------------------------------------------------------------
(* The generation specification: the caller holds a provider resolved from *)
(* the registry; the request and the backend's answer are drawn at Init;   *)
(* the actions are the direct provider call and the UI handler.            *)

InitGenerate ==
    /\ \E name \in RegisteredKeys :
          LET r == get_provider(name, NoKwargsDefault,
                                EnvironWithKey("sk-env"), TRUE)
          IN  /\ provider = r.instance
              /\ environ = r.env
    /\ request \in Requests
    /\ response \in BackendResponses
    /\ last = NoCall
    /\ LayoutIdle

NextGenerate == Generate \/ TransformSketch

SpecGenerate == InitGenerate /\ [][NextGenerate]_vars

----------------------------------------------------------------------------
(* Claims about the registry, checked under Spec *)

\* C1: get_provider of a registered key returns an instance whose name and
\* description are those list_providers reports for the key; of any other
\* key it constructs nothing and raises ValueError (the registry's
\* unknown-provider error) with a message naming every registered key.
C1_GetProviderResolvesRegistry ==
    last.op = "get_provider" =>
        IF last.key \in RegisteredKeys
        THEN last.error = "none" =>
                \E i \in 1..Len(list_providers) :
                    /\ list_providers[i][1] = last.key
                    /\ last.instance.key = last.key
                    /\ last.instance.name = list_providers[i][2]
                    /\ last.instance.description = list_providers[i][3]
        ELSE /\ last.error = "ValueError"
             /\ last.instance = NoProvider
             /\ \A k \in RegisteredKeys : Contains(last.message, <<k>>)

C1_Witness_UnknownKey ==
    /\ last.op = "get_provider"
    /\ last.key = "dalle"
    /\ last.error = "ValueError"
    /\ provider.key = "gemini"

\* C8: no call of the core writes process-wide state: os.environ is the
\* same after every step as before it.
C8_EnvironNeverWritten == [][environ' = environ]_vars

----------------------------------------------------------------------------
(* Claims about generation, checked under SpecGenerate *)

\* C2: the prompt a provider builds contains the style, and contains the
\* "Additional instructions:" suffix exactly when the instructions are
\* non-empty after trimming whitespace; when present it ends with the
\* instructions.
C2_SuffixIffNonBlank ==
    (last.op = "generate" /\ last.gen.requests > 0) =>
        /\ Contains(last.gen.full_prompt, request.style)
        /\ Contains(last.gen.full_prompt, <<InstructionsMarker>>)
              <=> TruthyStripped(request.prompt)
        /\ Contains(last.gen.full_prompt, <<InstructionsMarker>>)
              => EndsWith(last.gen.full_prompt,
                          <<InstructionsMarker>> \o request.prompt.chars)

\* C6: from a Gemini response with any sequence of text and image parts the
\* provider returns the image of the first image part; with no image part
\* it raises RuntimeError, which a failed backend call never raises.
C6_FirstImagePartWins ==
    (last.op = "generate" /\ last.key = "gemini") =>
        LET imgs == {i \in 1..Len(response.parts) :
                        response.parts[i] \in ImageParts}
        IN  /\ response.outcome = "fail" => last.error \notin {"none", "RuntimeError"}
            /\ (response.outcome = "ok" /\ imgs = {}) =>
                    /\ last.error = "RuntimeError"
                    /\ last.result = None
            /\ (response.outcome = "ok" /\ imgs # {}) =>
                    \E i \in imgs :
                        /\ \A j \in imgs : i <= j
                        /\ last.error = "none"
                        /\ last.result = DecodeImage(response.parts[i].inline_data)

C6_Witness_TwoImageParts ==
    /\ last.op = "generate"
    /\ last.key = "gemini"
    /\ response.outcome = "ok"
    /\ response.parts = <<[inline_data |-> "png-b"], [inline_data |-> "png-a"]>>
    /\ last.result = DecodeImage("png-b")

\* C7: a generate call, direct or through transform_sketch, sends at most
\* one request to the backend; when that request fails the call ends in an
\* error with no image, and no second request is sent.
C7_AtMostOneRequest ==
    last.op \in {"generate", "transform"} =>
        /\ last.gen.requests <= 1
        /\ (last.gen.requests >= 1 /\ response.outcome = "fail") =>
                /\ last.error # "none"
                /\ last.result = None
                /\ last.gen.result = None

C7_Witness_FailedRequest ==
    /\ last.op = "generate"
    /\ last.key = "openai"
    /\ response.outcome = "fail"
    /\ last.gen.requests = 1
    /\ last.error = "BackendError"

\* C9: the image the OpenAI provider transmits never carries transparency,
\* whatever the mode of the sketch, and the caller's sketch is not mutated.
C9_NoTransparencySent ==
    (last.op = "generate" /\ last.key = "openai" /\ last.gen.requests > 0) =>
        /\ last.gen.sent_mode \notin AlphaModes
        /\ last.gen.caller_sketch = request.sketch

----------------------------------------------------------------------------
(* Claims about the compositor, checked under SpecLayout *)

\* the slot of the claims, from the page geometry
SlotWidth == A4_WIDTH - 2 * MARGIN

SlotHeight == (A4_HEIGHT - 2 * MARGIN - 2 * LABEL_HEIGHT - SPACING) \div 2

\* size s is img scaled by the single ratio min(SlotWidth / width,
\* SlotHeight / height) = a / x, each side truncated by at most one pixel
ScaledWithinOnePixel(img, s) ==
    LET byw == SlotWidth * img.height <= SlotHeight * img.width
        a   == IF byw THEN SlotWidth ELSE SlotHeight
        x   == IF byw THEN img.width ELSE img.height
    IN  /\ 0 <= img.width * a - s.width * x
        /\ img.width * a - s.width * x <= x
        /\ 0 <= img.height * a - s.height * x
        /\ img.height * a - s.height * x <= x

FitsSlot(img, s) ==
    /\ s.width <= SlotWidth
    /\ s.height <= SlotHeight
    /\ ScaledWithinOnePixel(img, s)

\* C3: every size resize_to_fit computes for an image of positive width and
\* height is within the slot and is the original scaled by one ratio, each
\* side within one pixel of the exact value.
C3_ResizedFitsSlot ==
    /\ layout.orig_size # NoSize => FitsSlot(original, layout.orig_size)
    /\ layout.gen_size # NoSize => FitsSlot(generated, layout.gen_size)

C3_Witness_FloatBelowInteger ==
    /\ layout.error = "none"
    /\ original.width = 275
    /\ layout.orig_size.width = SlotWidth - 1
    /\ generated.height = 77
    /\ layout.gen_size.height = SlotHeight - 1

\* C4: on a returned page the bottom slot starts at or below the top
\* slot's bottom edge plus the spacing, both slots of height SlotHeight lie
\* within the margins, and both pasted images lie within their slots.
C4_SlotsDisjointInsidePage ==
    layout.error = "none" =>
        LET c == layout.canvas
        IN  /\ c.gen_y >= c.orig_y + SlotHeight + SPACING
            /\ c.orig_y >= MARGIN
            /\ c.gen_y + SlotHeight <= c.height - MARGIN
            /\ c.orig_x >= MARGIN
            /\ c.orig_x + c.orig_w <= c.width - MARGIN
            /\ c.orig_h <= SlotHeight
            /\ c.gen_x >= MARGIN
            /\ c.gen_x + c.gen_w <= c.width - MARGIN
            /\ c.gen_h <= SlotHeight
            /\ c.width = A4_WIDTH
            /\ c.height = A4_HEIGHT

C4_Witness_FullSlots ==
    /\ layout.error = "none"
    /\ layout.canvas.orig_w = SlotWidth
    /\ layout.canvas.gen_h = SlotHeight
    /\ layout.canvas.gen_w < SlotWidth

\* C5: create_print_layout and print_images, given None for the original
\* or for the generated image, end in an error and return no page.
C5_NullInputFails ==
    (original = None \/ generated = None) =>
        /\ layout.error # "none"
        /\ layout.canvas = NoCanvas
        /\ print_status.error # "none"
        /\ print_status.spooled = NoCanvas

C5_Witness_NullGenerated ==
    /\ original # None
    /\ generated = None
    /\ layout.error = "AttributeError"
    /\ layout.orig_size.width >= 1

\* C10: for every image of width >= 1 and height >= 1 the size
\* resize_to_fit computes has width >= 1 and height >= 1, and
\* create_print_layout returns a page.
C10_ResizeNeverEmpty ==
    (layout.error # "not called" /\ original # None /\ generated # None) =>
        /\ layout.orig_size.width >= 1
        /\ layout.orig_size.height >= 1
        /\ layout.error = "none"
        /\ layout.canvas # NoCanvas

====
